---- MODULE Spec2Model ----
(***************************************************************************)
(* A model of the two transcript services of LibraryCoders/knowledgehunter *)
(*                                                                         *)
(*   Service B  src/app.py        GET /api/transcript, /api/video-info,    *)
(*                                GET /api/video-data                      *)
(*   Service A  src/api/index.py  POST /transcript                         *)
(*                                                                         *)
(* Both services are stateless: a request is handled in one step from the  *)
(* request and from what the external providers answer during it, and the  *)
(* values built for it are discarded once the response is sent.            *)
(*                                                                         *)
(* A Python str is a sequence of one-character strings, a dict is a record *)
(* whose DOMAIN is the set of keys present, a list is a sequence.          *)
(***************************************************************************)
EXTENDS Integers, Sequences, FiniteSets, TLC

VARIABLES
    pc,        \* "idle": waiting for a request; "responded": a request was handled
    request,   \* the request being handled: endpoint, url parameter, JSON body kind
    world,     \* what the external providers answer during this request
    calls,     \* the provider calls the handler made, in order
    response,  \* the (status, JSON body) pair the handler returned
    escaped    \* the exception that left the handler towards the HTTP layer

vars == <<pc, request, world, calls, response, escaped>>

(***************************************************************************)
(* String literals of the source.                                          *)
(***************************************************************************)
\* 'https://'
RE_https == <<"h","t","t","p","s",":","/","/">>
\* 'http://'
RE_http == <<"h","t","t","p",":","/","/">>
\* 'www.'
RE_www == <<"w","w","w",".">>
\* 'youtube'
RE_youtube == <<"y","o","u","t","u","b","e">>
\* 'youtu'
RE_youtu == <<"y","o","u","t","u">>
\* 'youtube-nocookie'
RE_nocookie == <<"y","o","u","t","u","b","e","-","n","o","c","o","o","k","i","e">>
\* '.'
RE_dot == <<".">>
\* 'com'
RE_com == <<"c","o","m">>
\* 'be'
RE_be == <<"b","e">>
\* '/'
RE_slash == <<"/">>
\* 'watch?v='
RE_watch == <<"w","a","t","c","h","?","v","=">>
\* 'embed/'
RE_embed == <<"e","m","b","e","d","/">>
\* 'v/'
RE_v == <<"v","/">>
\* '?v='
RE_qv == <<"?","v","=">>
\* 'Missing URL parameter'
MSG_MissingUrl ==
    <<"M","i","s","s","i","n","g"," ","U","R","L"," ","p","a","r","a","m","e","t","e","r">>
\* "Invalid YouTube URL or couldn't extract video ID"
MSG_InvalidUrl ==
    <<"I","n","v","a","l","i","d"," ","Y","o","u","T","u","b","e"," ","U","R","L"," ","o","r"," ",
      "c","o","u","l","d","n","'","t"," ","e","x","t","r","a","c","t"," ","v","i","d","e","o"," ",
      "I","D">>
\* 'Transcripts are disabled for this video'
MSG_Disabled ==
    <<"T","r","a","n","s","c","r","i","p","t","s"," ","a","r","e"," ","d","i","s","a","b","l","e",
      "d"," ","f","o","r"," ","t","h","i","s"," ","v","i","d","e","o">>
\* 'No transcript found for this video'
MSG_NoTranscript ==
    <<"N","o"," ","t","r","a","n","s","c","r","i","p","t"," ","f","o","u","n","d"," ","f","o","r",
      " ","t","h","i","s"," ","v","i","d","e","o">>
\* 'No transcript found for this video in any supported language'
MSG_NoTranscriptAnyLang ==
    <<"N","o"," ","t","r","a","n","s","c","r","i","p","t"," ","f","o","u","n","d"," ","f","o","r",
      " ","t","h","i","s"," ","v","i","d","e","o"," ","i","n"," ","a","n","y"," ","s","u","p","p",
      "o","r","t","e","d"," ","l","a","n","g","u","a","g","e">>
\* 'The video is unavailable'
MSG_Unavailable ==
    <<"T","h","e"," ","v","i","d","e","o"," ","i","s"," ","u","n","a","v","a","i","l","a","b","l",
      "e">>
\* 'Error fetching transcript: '
MSG_ErrorFetchingTranscript ==
    <<"E","r","r","o","r"," ","f","e","t","c","h","i","n","g"," ","t","r","a","n","s","c","r","i",
      "p","t",":"," ">>
\* 'Error fetching video info: '
MSG_ErrorFetchingInfo ==
    <<"E","r","r","o","r"," ","f","e","t","c","h","i","n","g"," ","v","i","d","e","o"," ","i","n",
      "f","o",":"," ">>
\* 'Transcript is empty'
MSG_TranscriptEmpty ==
    <<"T","r","a","n","s","c","r","i","p","t"," ","i","s"," ","e","m","p","t","y">>
\* 'Failed to retrieve both video information and transcript'
MSG_BothFailed ==
    <<"F","a","i","l","e","d"," ","t","o"," ","r","e","t","r","i","e","v","e"," ","b","o","t","h",
      " ","v","i","d","e","o"," ","i","n","f","o","r","m","a","t","i","o","n"," ","a","n","d"," ",
      "t","r","a","n","s","c","r","i","p","t">>
\* 'Missing YouTube video URL'
MSG_MissingYouTubeUrl ==
    <<"M","i","s","s","i","n","g"," ","Y","o","u","T","u","b","e"," ","v","i","d","e","o"," ","U",
      "R","L">>
\* 'Video '
STR_Video == <<"V","i","d","e","o"," ">>
\* 'https://i.ytimg.com/vi/'
STR_ThumbPrefix ==
    <<"h","t","t","p","s",":","/","/","i",".","y","t","i","m","g",".","c","o","m","/","v","i","/">>
\* '/hqdefault.jpg'
STR_ThumbSuffix == <<"/","h","q","d","e","f","a","u","l","t",".","j","p","g">>
\* 'Unknown'
STR_Unknown == <<"U","n","k","n","o","w","n">>
\* 'Unknown Title'
STR_UnknownTitle == <<"U","n","k","n","o","w","n"," ","T","i","t","l","e">>
\* ' '
STR_Space == <<" ">>
\* '\n'
STR_Newline == <<"\n">>
\* ' - '
STR_Dash == <<" ","-"," ">>
\* ': '
STR_Colon == <<":"," ">>
\* '.'
STR_Point == <<".">>
\* '-'
STR_Minus == <<"-">>
\* "'NoneType' object has no attribute 'get'"
PY_NoneHasNoGet ==
    <<"'","N","o","n","e","T","y","p","e","'"," ","o","b","j","e","c","t"," ","h","a","s"," ","n",
      "o"," ","a","t","t","r","i","b","u","t","e"," ","'","g","e","t","'">>
\* "'NoneType' object is not subscriptable"
PY_NoneNotSubscriptable ==
    <<"'","N","o","n","e","T","y","p","e","'"," ","o","b","j","e","c","t"," ","i","s"," ","n","o",
      "t"," ","s","u","b","s","c","r","i","p","t","a","b","l","e">>
\* "'defaultDatasetId'"
PY_KeyDefaultDatasetId ==
    <<"'","d","e","f","a","u","l","t","D","a","t","a","s","e","t","I","d","'">>
\* 'disabled'
WORD_disabled == <<"d","i","s","a","b","l","e","d">>

(***************************************************************************)
(* Python values and built-ins the handlers use.                           *)
(***************************************************************************)
\* None where a str or a list is expected (no str is this sequence: its one
\* element is not a single character)
None == <<"None">>

\* None where a dict is expected
NoneDict == [py_none |-> TRUE]

\* truth value of a str or None: `not url`, `not video_id`, `not full_text`
Truthy(s) == s # None /\ s # <<>>

\* truth value of a dict or None: `not result['video_info']`
TruthyDict(d) == d # NoneDict /\ DOMAIN d # {}

\* dict.get(key, default)
Get(d, key, default) == IF key \in DOMAIN d THEN d[key] ELSE default

RECURSIVE Flatten(_)
\* the concatenation of a sequence of sequences
Flatten(ss) == IF ss = <<>> THEN <<>> ELSE Head(ss) \o Flatten(Tail(ss))

RECURSIVE Join(_, _)
\* sep.join(parts)
Join(sep, parts) ==
    IF parts = <<>> THEN <<>>
    ELSE IF Len(parts) = 1 THEN Head(parts)
    ELSE Head(parts) \o sep \o Join(sep, Tail(parts))

\* the characters str.strip() removes
Whitespace == {" ", "\t", "\n", "\r"}

\* s.strip()
Strip(s) ==
    LET keep == {i \in 1..Len(s) : s[i] \notin Whitespace}
    IN  IF keep = {} THEN <<>>
        ELSE SubSeq(s, CHOOSE i \in keep : \A j \in keep : i <= j,
                       CHOOSE i \in keep : \A j \in keep : j <= i)

Digits == <<"0", "1", "2", "3", "4", "5", "6", "7", "8", "9">>

RECURSIVE Str(_)
\* str(n) of an int
Str(n) ==
    IF n < 0 THEN STR_Minus \o Str(-n)
    ELSE IF n < 10 THEN <<Digits[n + 1]>>
    ELSE Str(n \div 10) \o <<Digits[(n % 10) + 1]>>

\* f"{x:.2f}" of a non-negative time, kept in hundredths of a second
Format2f(c) ==
    Str(c \div 100) \o STR_Point \o <<Digits[((c % 100) \div 10) + 1], Digits[(c % 10) + 1]>>

\* `needle in s` for two str
Contains(s, needle) ==
    \E i \in 0..(Len(s) - Len(needle)) : SubSeq(s, i + 1, i + Len(needle)) = needle

(***************************************************************************)
(* extract_video_id: re.match of youtube_regex at the start of the url.    *)
(* The matcher backtracks as Python's does: each part of the pattern gives *)
(* the positions it can end at, in the order the engine tries them, and    *)
(* the first complete match decides group 6.                               *)
(***************************************************************************)
\* {11}: the length of the captured identifier
IdLen == 11

\* the characters [^&=%\?] excludes
IdExcluded == {"&", "=", "%", "?"}

\* does s hold lit right after its first p characters
HasAt(s, p, lit) == p + Len(lit) <= Len(s) /\ SubSeq(s, p + 1, p + Len(lit)) = lit

\* a literal: the one position it ends at, or none
Lit(s, p, lit) == IF HasAt(s, p, lit) THEN <<p + Len(lit)>> ELSE <<>>

\* ReScheme with the scheme required: (https?://)
ReScheme_Mutant(s, p) == Lit(s, p, RE_https) \o Lit(s, p, RE_http)

\* (https?://)?
ReScheme(s, p) == Lit(s, p, RE_https) \o Lit(s, p, RE_http) \o <<p>>

\* (www\.)?
ReWww(s, p) == Lit(s, p, RE_www) \o <<p>>

\* (youtube|youtu|youtube-nocookie)
ReHost(s, p) == Lit(s, p, RE_youtube) \o Lit(s, p, RE_youtu) \o Lit(s, p, RE_nocookie)

\* \.
ReDot(s, p) == Lit(s, p, RE_dot)

\* (com|be)
ReTld(s, p) == Lit(s, p, RE_com) \o Lit(s, p, RE_be)

\* /
ReSlash(s, p) == Lit(s, p, RE_slash)

\* .+\?v= : the greedy .+ takes the longest run without a newline first
ReAnyThenQv(s, p) ==
    LET rest == Len(s) - p
        run  == CHOOSE k \in 0..rest :
                    /\ \A i \in 1..k : s[p + i] # "\n"
                    /\ (k = rest \/ s[p + k + 1] = "\n")
    IN  Flatten([j \in 1..run |-> Lit(s, p + (run + 1 - j), RE_qv)])

\* (watch\?v=|embed/|v/|.+\?v=)?
RePrefix(s, p) ==
    Lit(s, p, RE_watch) \o Lit(s, p, RE_embed) \o Lit(s, p, RE_v) \o ReAnyThenQv(s, p) \o <<p>>

\* ([^&=%\?]{11}): the captured text, or none
ReId(s, p) ==
    IF p + IdLen <= Len(s) /\ \A i \in (p + 1)..(p + IdLen) : s[i] \notin IdExcluded
    THEN <<SubSeq(s, p + 1, p + IdLen)>>
    ELSE <<>>

\* group 6 of every way youtube_regex matches at the start of url, first way first:
\* each part is tried from every position the parts before it can end at, in turn
youtube_regex(url) ==
    LET a == ReScheme(url, 0)
        b == Flatten([i \in 1..Len(a) |-> ReWww(url, a[i])])
        c == Flatten([i \in 1..Len(b) |-> ReHost(url, b[i])])
        d == Flatten([i \in 1..Len(c) |-> ReDot(url, c[i])])
        e == Flatten([i \in 1..Len(d) |-> ReTld(url, d[i])])
        f == Flatten([i \in 1..Len(e) |-> ReSlash(url, e[i])])
        g == Flatten([i \in 1..Len(f) |-> RePrefix(url, f[i])])
    IN  Flatten([i \in 1..Len(g) |-> ReId(url, g[i])])

extract_video_id(url) ==
    LET match == youtube_regex(url)
    IN  IF match # <<>> THEN Head(match) ELSE None

(***************************************************************************)
(* The requests: the url parameter of a request.                           *)
(***************************************************************************)
\* how many of the videos of VideoIdPool requests are about
NumIds == 2

\* 'dQw4w9WgXcQ'
ID_dQw4w9WgXcQ == <<"d","Q","w","4","w","9","W","g","X","c","Q">>
\* 'a-b_c1D2e3F'
ID_a_b_c1D2e3F == <<"a","-","b","_","c","1","D","2","e","3","F">>
\* 'jNQXAC9IVRw'
ID_jNQXAC9IVRw == <<"j","N","Q","X","A","C","9","I","V","R","w">>
\* '9bZkp7q19f0'
ID_9bZkp7q19f0 == <<"9","b","Z","k","p","7","q","1","9","f","0">>
\* 'http://'
URL_http == <<"h","t","t","p",":","/","/">>
\* 'https://'
URL_https == <<"h","t","t","p","s",":","/","/">>
\* 'www.'
URL_www == <<"w","w","w",".">>
\* 'youtube.com/watch?v='
URL_watch == <<"y","o","u","t","u","b","e",".","c","o","m","/","w","a","t","c","h","?","v","=">>
\* 'youtu.be/'
URL_short == <<"y","o","u","t","u",".","b","e","/">>
\* 'youtube.com/embed/'
URL_embed == <<"y","o","u","t","u","b","e",".","c","o","m","/","e","m","b","e","d","/">>
\* 'youtube-nocookie.com/embed/'
URL_nocookie ==
    <<"y","o","u","t","u","b","e","-","n","o","c","o","o","k","i","e",".","c","o","m","/","e","m",
      "b","e","d","/">>
\* 'https://www.youtube.com/watch?v=dQw4w9WgXcQ&t=42s'
URL_WithTime ==
    <<"h","t","t","p","s",":","/","/","w","w","w",".","y","o","u","t","u","b","e",".","c","o","m",
      "/","w","a","t","c","h","?","v","=","d","Q","w","4","w","9","W","g","X","c","Q","&","t","=",
      "4","2","s">>
\* 'https://www.youtube.com/watch?feature=share&v=dQw4w9WgXcQ'
URL_VNotFirst ==
    <<"h","t","t","p","s",":","/","/","w","w","w",".","y","o","u","t","u","b","e",".","c","o","m",
      "/","w","a","t","c","h","?","f","e","a","t","u","r","e","=","s","h","a","r","e","&","v","=",
      "d","Q","w","4","w","9","W","g","X","c","Q">>
\* 'https://m.youtube.com/watch?v=dQw4w9WgXcQ'
URL_Mobile ==
    <<"h","t","t","p","s",":","/","/","m",".","y","o","u","t","u","b","e",".","c","o","m","/","w",
      "a","t","c","h","?","v","=","d","Q","w","4","w","9","W","g","X","c","Q">>
\* ' https://youtu.be/dQw4w9WgXcQ'
URL_LeadingSpace ==
    <<" ","h","t","t","p","s",":","/","/","y","o","u","t","u",".","b","e","/","d","Q","w","4","w",
      "9","W","g","X","c","Q">>
\* 'https://youtu.be/dQw4w9'
URL_ShortId ==
    <<"h","t","t","p","s",":","/","/","y","o","u","t","u",".","b","e","/","d","Q","w","4","w","9">>
\* 'https://vimeo.com/123456789012'
URL_OtherSite ==
    <<"h","t","t","p","s",":","/","/","v","i","m","e","o",".","c","o","m","/","1","2","3","4","5",
      "6","7","8","9","0","1","2">>
\* 'https://www.youtube.com/channel/UCuAXFkgsw1L7xaCfnd5JJOw'
URL_Channel ==
    <<"h","t","t","p","s",":","/","/","w","w","w",".","y","o","u","t","u","b","e",".","c","o","m",
      "/","c","h","a","n","n","e","l","/","U","C","u","A","X","F","k","g","s","w","1","L","7","x",
      "a","C","f","n","d","5","J","J","O","w">>
\* 'not a url'
URL_NotAUrl == <<"n","o","t"," ","a"," ","u","r","l">>
\* 'https://www.youtube.com/live?v=dQw4w9WgXcQ'
URL_AnyPath ==
    <<"h","t","t","p","s",":","/","/","w","w","w",".","y","o","u","t","u","b","e",".","c","o","m",
      "/","l","i","v","e","?","v","=","d","Q","w","4","w","9","W","g","X","c","Q">>

VideoIdPool == <<ID_dQw4w9WgXcQ, ID_a_b_c1D2e3F, ID_jNQXAC9IVRw, ID_9bZkp7q19f0>>

VideoIds == {VideoIdPool[i] : i \in 1..NumIds}

Schemes == {<<>>, URL_http, URL_https}

Wwws == {<<>>, URL_www}

\* the URL shapes of one video: watch, short link, embed, nocookie domain
Shapes == {URL_watch, URL_short, URL_embed, URL_nocookie}

\* every accepted shape of the URL of video id
UrlsOf(id) == {scheme \o www \o shape \o id : scheme \in Schemes, www \in Wwws, shape \in Shapes}

\* other values of the url parameter: absent, empty, extra parameters, unknown shapes
OtherUrls ==
    {None, <<>>, URL_WithTime, URL_VNotFirst, URL_Mobile, URL_LeadingSpace, URL_ShortId,
     URL_OtherSite, URL_Channel, URL_AnyPath, URL_NotAUrl}

Urls == UNION {UrlsOf(id) : id \in VideoIds} \cup OtherUrls

(***************************************************************************)
(* The external providers: the captions library (youtube_transcript_api),  *)
(* the metadata extractor (yt_dlp) and, for Service A, the job runner      *)
(* (apify_client).  `world` fixes, for one request, what each of them      *)
(* answers: an exception it raises, or the value it returns.               *)
(***************************************************************************)
\* the longest transcript, in segments, a provider returns
MaxSegs == 2

\* 'HTTP Error 429: Too Many Requests'
EXC_TooManyRequests ==
    <<"H","T","T","P"," ","E","r","r","o","r"," ","4","2","9",":"," ","T","o","o"," ","M","a","n",
      "y"," ","R","e","q","u","e","s","t","s">>
\* 'Could not retrieve a transcript for the video'
LIB_CouldNotRetrieve ==
    <<"C","o","u","l","d"," ","n","o","t"," ","r","e","t","r","i","e","v","e"," ","a"," ","t","r",
      "a","n","s","c","r","i","p","t"," ","f","o","r"," ","t","h","e"," ","v","i","d","e","o">>
\* 'a'
TXT_a == <<"a">>
\* 'b'
TXT_b == <<"b">>
\* 'Never Gonna Give You Up'
INFO_Title ==
    <<"N","e","v","e","r"," ","G","o","n","n","a"," ","G","i","v","e"," ","Y","o","u"," ","U","p">>
\* 'https://i.ytimg.com/vi_webp/dQw4w9WgXcQ/maxresdefault.webp'
INFO_Thumbnail ==
    <<"h","t","t","p","s",":","/","/","i",".","y","t","i","m","g",".","c","o","m","/","v","i","_",
      "w","e","b","p","/","d","Q","w","4","w","9","W","g","X","c","Q","/","m","a","x","r","e","s",
      "d","e","f","a","u","l","t",".","w","e","b","p">>
\* '20091025'
INFO_UploadDate == <<"2","0","0","9","1","0","2","5">>
\* 'Rick Astley'
INFO_Channel == <<"R","i","c","k"," ","A","s","t","l","e","y">>
\* 'The official video'
INFO_Description == <<"T","h","e"," ","o","f","f","i","c","i","a","l"," ","v","i","d","e","o">>
\* 'WkzbQMuFYuamGv3YF'
ACTOR_Dataset == <<"W","k","z","b","Q","M","u","F","Y","u","a","m","G","v","3","Y","F">>

\* no exception
NoExc == [kind |-> "none", msg |-> <<>>]

\* an exception of class kind whose str() is msg
Exc(kind, msg) == [kind |-> kind, msg |-> msg]

\* str(e) of the exceptions that are none of the three named captions errors
ExcMsgs == {<<>>, EXC_TooManyRequests}

\* any other exception of a provider: a network error, a parsing error, an assertion
OtherErrors == {Exc("Exception", m) : m \in ExcMsgs}

\* the exceptions of the captions library
CaptionsErrors ==
    {Exc(k, LIB_CouldNotRetrieve) : k \in {"TranscriptsDisabled", "NoTranscriptFound", "VideoUnavailable"}}
        \cup OtherErrors

\* the languages a video may have captions in
CaptionLanguages == {"en", "de"}

\* transcript segments: start and duration are in hundredths of a second
SegmentPool ==
    {[text |-> TXT_a, start |-> 0, duration |-> 528],
     [text |-> TXT_b, start |-> 528, duration |-> 342],
     [text |-> <<>>, start |-> 870, duration |-> 100]}

Transcripts == UNION {[1..n -> SegmentPool] : n \in 0..MaxSegs}

\* what yt_dlp's extract_info returns: every field, few fields, or None
InfoFull ==
    [id |-> ID_dQw4w9WgXcQ, title |-> INFO_Title, thumbnail |-> INFO_Thumbnail, duration |-> 213,
     view_count |-> 1500000, upload_date |-> INFO_UploadDate, channel |-> INFO_Channel,
     like_count |-> 17000, description |-> INFO_Description]

InfoSparse == [id |-> ID_dQw4w9WgXcQ, title |-> INFO_Title]

Infos == {InfoFull, InfoSparse, NoneDict}

\* the captions side of a request
CaptionWorlds ==
    [listExc : CaptionsErrors, langs : {{}}, fetchExc : {NoExc}, segments : {<<>>}]
        \cup [listExc : {NoExc}, langs : SUBSET CaptionLanguages, fetchExc : CaptionsErrors,
              segments : {<<>>}]
        \cup [listExc : {NoExc}, langs : SUBSET CaptionLanguages, fetchExc : {NoExc},
              segments : Transcripts]

\* the metadata side of a request
MetaWorlds == [metaExc : OtherErrors, info : {NoneDict}] \cup [metaExc : {NoExc}, info : Infos]

\* a request to Service B: both sides
Merge(c, m) ==
    [listExc |-> c.listExc, langs |-> c.langs, fetchExc |-> c.fetchExc, segments |-> c.segments,
     metaExc |-> m.metaExc, info |-> m.info]

Worlds == {Merge(c, m) : c \in CaptionWorlds, m \in MetaWorlds}

\* the captions library is not asked: /api/video-info
NoCaptions == [listExc |-> NoExc, langs |-> {}, fetchExc |-> NoExc, segments |-> <<>>]

MetaOnlyWorlds == {Merge(NoCaptions, m) : m \in MetaWorlds}

\* a provider call the handler made
Call(fn, arg) == [fn |-> fn, arg |-> arg]

\* YouTubeTranscriptApi.list_transcripts(video_id)
list_transcripts(w, video_id) == [exc |-> w.listExc, transcript_list |-> w.langs]

RECURSIVE find_transcript(_, _)
\* TranscriptList.find_transcript(language_codes): the transcript of the first requested
\* language the video has; NoTranscriptFound when the video has none of them
find_transcript(transcript_list, language_codes) ==
    IF language_codes = <<>>
    THEN [exc |-> Exc("NoTranscriptFound", LIB_CouldNotRetrieve), language |-> "none"]
    ELSE IF Head(language_codes) \in transcript_list
         THEN [exc |-> NoExc, language |-> Head(language_codes)]
         ELSE find_transcript(transcript_list, Tail(language_codes))

\* Transcript.fetch()
fetch(w, transcript) == [exc |-> w.fetchExc, parts |-> w.segments]

\* yt_dlp.YoutubeDL(opts).extract_info(url, download=False), as download_info calls it
download_info(w, url) == [exc |-> w.metaExc, info |-> w.info]

(***************************************************************************)
(* Service B, src/app.py.  A handler's outcome is the status and the JSON  *)
(* body it returns, the provider calls it made, and the exception that     *)
(* left it, if any.                                                        *)
(***************************************************************************)
\* ALL_LANGUAGES
ALL_LANGUAGES ==
    <<"af", "sq", "am", "ar", "hy", "az", "eu", "be", "bn", "bs", "bg", "my", "ca", "ceb", "zh",
      "zh-Hans", "zh-Hant", "co", "hr", "cs", "da", "nl", "en", "eo", "et", "fi", "fr", "fy", "gl",
      "ka", "de", "el", "gu", "ht", "ha", "haw", "he", "hi", "hmn", "hu", "is", "ig", "id", "ga",
      "it", "ja", "jw", "kn", "kk", "km", "rw", "ko", "ku", "ky", "lo", "la", "lv", "lt", "lb",
      "mk", "mg", "ms", "ml", "mt", "mi", "mr", "mn", "ne", "no", "ny", "or", "ps", "fa", "pl",
      "pt", "pa", "ro", "ru", "sm", "gd", "sr", "st", "sn", "sd", "si", "sk", "sl", "so", "es",
      "su", "sw", "sv", "tl", "tg", "ta", "tt", "te", "th", "tr", "tk", "uk", "ur", "ug", "uz",
      "vi", "cy", "xh", "yi", "yo", "zu">>

\* return jsonify(body), status
Reply(status, body, made) == [status |-> status, body |-> body, calls |-> made, escaped |-> NoExc]

\* MissingUrlReply without the success flag
MissingUrlReply_Mutant == Reply(400, [error |-> MSG_MissingUrl], <<>>)

\* InvalidUrlReply as a 404
InvalidUrlReply_Mutant == Reply(404, [success |-> FALSE, error |-> MSG_InvalidUrl], <<>>)

\* the request-parameter checks both identifier-based handlers start with
MissingUrlReply == Reply(400, [success |-> FALSE, error |-> MSG_MissingUrl], <<>>)

InvalidUrlReply == Reply(400, [success |-> FALSE, error |-> MSG_InvalidUrl], <<>>)

\* the first info.get(...) of a handler when extract_info returned None
InfoGetError(info) ==
    IF info = NoneDict THEN Exc("AttributeError", PY_NoneHasNoGet) ELSE NoExc

\* the minimal video record built from the identifier
FallbackTitle(video_id) == STR_Video \o video_id

\* FallbackThumbnail built from another image of the video
FallbackThumbnail_Mutant(video_id) == STR_ThumbPrefix \o video_id \o <<"/", "0", ".", "j", "p", "g">>

FallbackThumbnail(video_id) == STR_ThumbPrefix \o video_id \o STR_ThumbSuffix

\* get_transcript, the inner try: list, find ['en'] then [], fetch, join
TranscriptTry(w, video_id) ==
    LET listed == list_transcripts(w, video_id)
        c1 == <<Call("list_transcripts", video_id)>>
    IN  IF listed.exc # NoExc
        THEN [exc |-> listed.exc, full_text |-> <<>>, calls |-> c1]
        ELSE
        LET en == find_transcript(listed.transcript_list, <<"en">>)
            transcript == IF en.exc = NoExc
                          THEN en
                          ELSE find_transcript(listed.transcript_list, <<>>)
            c2 == c1 \o <<Call("find_transcript", <<"en">>)>>
                     \o (IF en.exc = NoExc THEN <<>>
                         ELSE <<Call("find_transcript", <<>>)>>)
        IN  IF transcript.exc # NoExc
            THEN [exc |-> transcript.exc, full_text |-> <<>>, calls |-> c2]
            ELSE
            LET fetched == fetch(w, transcript)
                parts == fetched.parts
                c3 == c2 \o <<Call("fetch", <<transcript.language>>)>>
            IN  IF fetched.exc # NoExc
                THEN [exc |-> fetched.exc, full_text |-> <<>>, calls |-> c3]
                ELSE [exc |-> NoExc,
                      full_text |-> Join(STR_Space, [i \in 1..Len(parts) |-> parts[i].text]),
                      calls |-> c3]

\* TranscriptErrorReply with no clause for VideoUnavailable
TranscriptErrorReply_Mutant(exc, made) ==
    IF exc.kind = "TranscriptsDisabled"
    THEN Reply(404, [success |-> FALSE, error |-> MSG_Disabled], made)
    ELSE IF exc.kind = "NoTranscriptFound"
    THEN Reply(404, [success |-> FALSE, error |-> MSG_NoTranscript], made)
    ELSE Reply(500, [success |-> FALSE, error |-> MSG_ErrorFetchingTranscript \o exc.msg], made)

\* get_transcript, the except clauses of the inner try
TranscriptErrorReply(exc, made) ==
    IF exc.kind = "TranscriptsDisabled"
    THEN Reply(404, [success |-> FALSE, error |-> MSG_Disabled], made)
    ELSE IF exc.kind = "NoTranscriptFound"
    THEN Reply(404, [success |-> FALSE, error |-> MSG_NoTranscript], made)
    ELSE IF exc.kind = "VideoUnavailable"
    THEN Reply(404, [success |-> FALSE, error |-> MSG_Unavailable], made)
    ELSE Reply(500, [success |-> FALSE, error |-> MSG_ErrorFetchingTranscript \o exc.msg], made)

\* get_transcript, the metadata try: the video record, or the fallback record
VideoDetails(w, url, video_id) ==
    LET got == download_info(w, url)
        info == got.info
    IN  IF got.exc = NoExc /\ InfoGetError(info) = NoExc
        THEN [title |-> Get(info, "title", STR_UnknownTitle),
              thumbnail |-> Get(info, "thumbnail", <<>>),
              duration |-> Str(Get(info, "duration", 0)),
              views |-> Str(Get(info, "view_count", 0)),
              upload_date |-> Get(info, "upload_date", <<>>),
              channel |-> Get(info, "channel", <<>>),
              likes |-> Str(Get(info, "like_count", 0))]
        ELSE [title |-> FallbackTitle(video_id),
              thumbnail |-> FallbackThumbnail(video_id),
              duration |-> STR_Unknown,
              views |-> STR_Unknown,
              upload_date |-> STR_Unknown,
              channel |-> STR_Unknown,
              likes |-> STR_Unknown]

\* IsEmptyTranscript without the strip(): if not full_text
IsEmptyTranscript_Mutant(full_text) == ~Truthy(full_text)

\* if not full_text or full_text.strip() == ''
IsEmptyTranscript(full_text) == ~Truthy(full_text) \/ Strip(full_text) = <<>>

\* GET /api/transcript.  Nothing between the two inner try blocks and the return
\* can raise, so the outer except clause is never entered.
get_transcript(w, url) ==
    IF ~Truthy(url) THEN MissingUrlReply
    ELSE
    LET video_id == extract_video_id(url)
    IN  IF ~Truthy(video_id) THEN InvalidUrlReply
        ELSE
        LET tried == TranscriptTry(w, video_id)
        IN  IF tried.exc # NoExc THEN TranscriptErrorReply(tried.exc, tried.calls)
            ELSE
            LET video_details == VideoDetails(w, url, video_id)
                made == tried.calls \o <<Call("download_info", url)>>
            IN  IF IsEmptyTranscript(tried.full_text)
                THEN Reply(404, [success |-> FALSE, error |-> MSG_TranscriptEmpty,
                                 video |-> video_details], made)
                ELSE Reply(200, [success |-> TRUE, video |-> video_details,
                                 transcript |-> tried.full_text], made)

\* GET /api/video-info
get_video_info(w, url) ==
    IF ~Truthy(url) THEN MissingUrlReply
    ELSE
    LET got == download_info(w, url)
        info == got.info
        exc == IF got.exc # NoExc THEN got.exc ELSE InfoGetError(info)
        made == <<Call("download_info", url)>>
    IN  IF exc # NoExc
        THEN Reply(500, [success |-> FALSE, error |-> exc.msg], made)
        ELSE Reply(200, [success |-> TRUE,
                         video_id |-> Get(info, "id", None),
                         title |-> Get(info, "title", None),
                         thumbnail |-> Get(info, "thumbnail", None),
                         duration |-> Get(info, "duration", None),
                         channel |-> Get(info, "channel", None),
                         upload_date |-> Get(info, "upload_date", None)], made)

\* YouTubeTranscriptApi.get_transcript(video_id, languages): the library lists the
\* transcripts, finds the first of the languages and fetches it
YouTubeTranscriptApi_get_transcript(w, video_id, languages) ==
    LET listed == list_transcripts(w, video_id)
        found == find_transcript(listed.transcript_list, languages)
        fetched == fetch(w, found)
    IN  IF listed.exc # NoExc THEN [exc |-> listed.exc, transcript_data |-> <<>>]
        ELSE IF found.exc # NoExc THEN [exc |-> found.exc, transcript_data |-> <<>>]
        ELSE [exc |-> fetched.exc, transcript_data |-> fetched.parts]

\* d[key] = value
SetItem(d, key, value) == (key :> value) @@ d

\* f"{item['start']:.2f} - {(item['start'] + item['duration']):.2f}: {item['text']}"
PlainLine(item) ==
    Format2f(item.start) \o STR_Dash \o Format2f(item.start + item.duration) \o STR_Colon
        \o item.text

\* get_video_data, the metadata try: result after it
VideoInfoStep(w, url, result) ==
    LET got == download_info(w, url)
        info == got.info
        exc == IF got.exc # NoExc THEN got.exc ELSE InfoGetError(info)
    IN  IF exc = NoExc
        THEN SetItem(result, "video_info",
                     [title |-> Get(info, "title", None),
                      thumbnail |-> Get(info, "thumbnail", None),
                      duration |-> Get(info, "duration", None),
                      views |-> Get(info, "view_count", None),
                      upload_date |-> Get(info, "upload_date", None),
                      channel |-> Get(info, "channel", None),
                      likes |-> Get(info, "like_count", None),
                      description |-> Get(info, "description", None)])
        ELSE SetItem(SetItem(SetItem(result, "success", FALSE),
                             "video_info_error", MSG_ErrorFetchingInfo \o exc.msg),
                     "video_info",
                     [title |-> FallbackTitle(result.video_id),
                      thumbnail |-> FallbackThumbnail(result.video_id)])

\* get_video_data, the except clauses of the transcript try
TranscriptErrorText(exc) ==
    IF exc.kind = "TranscriptsDisabled" THEN MSG_Disabled
    ELSE IF exc.kind = "NoTranscriptFound" THEN MSG_NoTranscriptAnyLang
    ELSE IF exc.kind = "VideoUnavailable" THEN MSG_Unavailable
    ELSE MSG_ErrorFetchingTranscript \o exc.msg

\* get_video_data, the transcript try: result after it
TranscriptStep(w, result) ==
    LET got == YouTubeTranscriptApi_get_transcript(w, result.video_id, ALL_LANGUAGES)
        data == got.transcript_data
    IN  IF got.exc = NoExc
        THEN SetItem(SetItem(result, "transcript", data),
                     "transcript_text",
                     Join(STR_Newline, [i \in 1..Len(data) |-> PlainLine(data[i])]))
        ELSE SetItem(result, "transcript_error", TranscriptErrorText(got.exc))

\* BothFailed without the test of 'video_info_error'
BothFailed_Mutant(result) ==
    ~TruthyDict(result.video_info) /\ "transcript_error" \in DOMAIN result

\* if (not result['video_info'] or 'video_info_error' in result) and 'transcript_error' in result
BothFailed(result) ==
    /\ (~TruthyDict(result.video_info) \/ "video_info_error" \in DOMAIN result)
    /\ "transcript_error" \in DOMAIN result

\* get_video_data, the closing check: result as returned
OverallStep(result) ==
    IF BothFailed(result)
    THEN SetItem(SetItem(result, "success", FALSE), "error", MSG_BothFailed)
    ELSE result

\* GET /api/video-data
get_video_data(w, url) ==
    IF ~Truthy(url) THEN MissingUrlReply
    ELSE
    LET video_id == extract_video_id(url)
    IN  IF ~Truthy(video_id) THEN InvalidUrlReply
        ELSE
        LET result == [success |-> TRUE, video_id |-> video_id, video_info |-> NoneDict,
                       transcript |-> None, transcript_error |-> None]
            made == <<Call("download_info", url), Call("get_transcript", video_id)>>
        IN  Reply(200, OverallStep(TranscriptStep(w, VideoInfoStep(w, url, result))), made)

(***************************************************************************)
(* Service A, src/api/index.py.                                            *)
(***************************************************************************)
\* the dict with no key
EmptyDict == [k \in {} |-> None]

\* what the job runner answers: the run of the actor, then the items of its dataset
RunOk == [defaultDatasetId |-> ACTOR_Dataset, status |-> "SUCCEEDED"]

RunWithoutDataset == [status |-> "FAILED"]

ItemLists == {<<>>, <<[transcript |-> TXT_a]>>, <<[transcript |-> TXT_a], [transcript |-> TXT_b]>>}

ActorWorlds ==
    [actorExc : OtherErrors, run : {NoneDict}, datasetExc : {NoExc}, items : {<<>>}]
        \cup [actorExc : {NoExc}, run : {NoneDict, RunWithoutDataset}, datasetExc : {NoExc},
              items : {<<>>}]
        \cup [actorExc : {NoExc}, run : {RunOk}, datasetExc : OtherErrors, items : {<<>>}]
        \cup [actorExc : {NoExc}, run : {RunOk}, datasetExc : {NoExc}, items : ItemLists]

\* the JSON bodies of a POST: not JSON, null, {}, an object without "url", one with it
JsonBodies == {"malformed", "null", "empty", "without_url", "with_url"}

\* request.get_json(): the parsed body; Flask raises BadRequest on a body it cannot parse
get_json(body, url) ==
    IF body = "malformed" THEN [exc |-> Exc("BadRequest", <<>>), data |-> NoneDict]
    ELSE IF body = "null" THEN [exc |-> NoExc, data |-> NoneDict]
    ELSE IF body = "empty" THEN [exc |-> NoExc, data |-> EmptyDict]
    ELSE IF body = "without_url" THEN [exc |-> NoExc, data |-> [video |-> url]]
    ELSE [exc |-> NoExc, data |-> [url |-> url]]

\* apify_client.actor(...).call(run_input=run_input)
actor_call(w, run_input) == [exc |-> w.actorExc, run |-> w.run]

\* run["defaultDatasetId"]
DatasetIdError(run) ==
    IF run = NoneDict THEN Exc("TypeError", PY_NoneNotSubscriptable)
    ELSE IF "defaultDatasetId" \notin DOMAIN run THEN Exc("KeyError", PY_KeyDefaultDatasetId)
    ELSE NoExc

\* list(apify_client.dataset(dataset_id).iterate_items())
iterate_items(w, dataset_id) == [exc |-> w.datasetExc, results |-> w.items]

\* POST /transcript, the try block: the first exception raised in it, or the results
ActorTry(w, video_url) ==
    LET ran == actor_call(w, [urls |-> <<video_url>>])
        c1 == <<Call("actor.call", video_url)>>
    IN  IF ran.exc # NoExc THEN [exc |-> ran.exc, calls |-> c1]
        ELSE IF DatasetIdError(ran.run) # NoExc THEN [exc |-> DatasetIdError(ran.run), calls |-> c1]
        ELSE
        LET dataset_id == ran.run.defaultDatasetId
            listed == iterate_items(w, dataset_id)
            c2 == c1 \o <<Call("dataset.iterate_items", dataset_id)>>
        IN  IF listed.exc # NoExc THEN [exc |-> listed.exc, calls |-> c2]
            ELSE [exc |-> NoExc, calls |-> c2, dataset_id |-> dataset_id,
                  results |-> listed.results]

\* the handler did not return: the exception went to the HTTP layer
NoReply == [status |-> 0, body |-> EmptyDict]

Raise(exc, made) == [status |-> 0, body |-> EmptyDict, calls |-> made, escaped |-> exc]

\* POST /transcript
index_get_transcript(w, body, url) ==
    LET parsed == get_json(body, url)
        data == parsed.data
    IN  IF parsed.exc # NoExc THEN Raise(parsed.exc, <<>>)
        ELSE IF ~TruthyDict(data) \/ "url" \notin DOMAIN data
        THEN Reply(400, [error |-> MSG_MissingYouTubeUrl], <<>>)
        ELSE
        LET tried == ActorTry(w, data.url)
        IN  IF tried.exc # NoExc
            THEN Reply(500, [error |-> tried.exc.msg], tried.calls)
            ELSE Reply(200, [dataset_id |-> tried.dataset_id, transcript |-> tried.results],
                       tried.calls)

(***************************************************************************)
(* The services: one step handles one request; the values built for it are *)
(* discarded once the response is sent.                                    *)
(***************************************************************************)
NoRequest == [endpoint |-> "none", url |-> None, body |-> "none"]

NoWorld == [none |-> TRUE]

Init ==
    /\ pc = "idle"
    /\ request = NoRequest
    /\ world = NoWorld
    /\ calls = <<>>
    /\ response = NoReply
    /\ escaped = NoExc

\* the handler of endpoint ran on (url, body) in world w and ended as outcome
Respond(endpoint, url, body, w, outcome) ==
    /\ pc' = "responded"
    /\ request' = [endpoint |-> endpoint, url |-> url, body |-> body]
    /\ world' = w
    /\ calls' = outcome.calls
    /\ response' = [status |-> outcome.status, body |-> outcome.body]
    /\ escaped' = outcome.escaped

TranscriptRequest ==
    /\ pc = "idle"
    /\ \E url \in Urls, w \in Worlds :
            Respond("/api/transcript", url, "none", w, get_transcript(w, url))

VideoInfoRequest ==
    /\ pc = "idle"
    /\ \E url \in Urls, w \in MetaOnlyWorlds :
            Respond("/api/video-info", url, "none", w, get_video_info(w, url))

VideoDataRequest ==
    /\ pc = "idle"
    /\ \E url \in Urls, w \in Worlds :
            Respond("/api/video-data", url, "none", w, get_video_data(w, url))

PostTranscriptRequest ==
    /\ pc = "idle"
    /\ \E body \in JsonBodies, url \in Urls \ {None}, w \in ActorWorlds :
            Respond("/transcript", url, body, w, index_get_transcript(w, body, url))

\* the response is sent and the request's values are dropped
Discard ==
    /\ pc = "responded"
    /\ pc' = "idle"
    /\ request' = NoRequest
    /\ world' = NoWorld
    /\ calls' = <<>>
    /\ response' = NoReply
    /\ escaped' = NoExc

Next ==
    \/ TranscriptRequest
    \/ VideoInfoRequest
    \/ VideoDataRequest
    \/ PostTranscriptRequest
    \/ Discard

Spec == Init /\ [][Next]_vars

(***************************************************************************)
(* The claims.  What a claim says of a request is read off the request,    *)
(* the world of the request and the response.                              *)
(***************************************************************************)
\* a request to endpoint was handled
Handled(endpoint) == pc = "responded" /\ request.endpoint = endpoint

\* the url parameter is present and identifier extraction succeeded on it
IdExtracted == Truthy(request.url) /\ extract_video_id(request.url) # None

\* the metadata retrieval fails: the extractor raises, or returns nothing to read
MetaFails == world.metaExc # NoExc \/ world.info = NoneDict

\* the metadata extractor raises
MetaRaises == world.metaExc # NoExc

\* the captions retrieval over ALL_LANGUAGES succeeds: the combined endpoint's
CaptionsSucceed ==
    /\ world.listExc = NoExc
    /\ \E i \in 1..Len(ALL_LANGUAGES) : ALL_LANGUAGES[i] \in world.langs
    /\ world.fetchExc = NoExc

\* the captions provider raises an exception of class kind to the transcript-only
\* endpoint: on listing, or on fetching the English transcript
ProviderRaises(kind) ==
    \/ world.listExc.kind = kind
    \/ world.listExc = NoExc /\ "en" \in world.langs /\ world.fetchExc.kind = kind

\* the exception the provider raises in that case
ProviderException == IF world.listExc # NoExc THEN world.listExc ELSE world.fetchExc

\* the provider lists and fetches without raising, and the video has captions
CaptionsAvailable == world.listExc = NoExc /\ world.langs # {} /\ world.fetchExc = NoExc

\* the text of the segments is empty or whitespace only
SegmentsBlank == \A i \in 1..Len(world.segments) : Strip(world.segments[i].text) = <<>>

\* a provider function was called during the request
Called(fn) == \E i \in 1..Len(calls) : calls[i].fn = fn

\* C1: on /api/video-data with the identifier extracted, success is false only when
\* both the metadata and the captions retrieval failed; a metadata failure with a
\* successful captions retrieval leaves success true and adds no top-level error.
C1_SuccessFalseOnlyWhenBothFailed ==
    (Handled("/api/video-data") /\ IdExtracted) =>
        /\ response.body.success = FALSE => (MetaFails /\ ~CaptionsSucceed)
        /\ (MetaFails /\ CaptionsSucceed) =>
               (response.body.success = TRUE /\ "error" \notin DOMAIN response.body)

\* C2: on /api/video-data with the identifier extracted, when the metadata and the
\* captions retrieval both fail, success is false and the top-level error says that
\* both video information and transcript could not be retrieved.
C2_BothFailedIsReported ==
    (Handled("/api/video-data") /\ IdExtracted /\ MetaFails /\ ~CaptionsSucceed) =>
        /\ response.body.success = FALSE
        /\ "error" \in DOMAIN response.body
        /\ response.body.error = MSG_BothFailed

C2_Witness ==
    /\ Handled("/api/video-data") /\ IdExtracted
    /\ MetaRaises /\ world.listExc.kind = "TranscriptsDisabled"
    /\ response.body.success = FALSE

\* C3: on the three endpoints of Service B, a response whose success is false carries
\* a top-level error that is neither null nor empty.
C3_FailureCarriesError ==
    (pc = "responded"
        /\ request.endpoint \in {"/api/transcript", "/api/video-info", "/api/video-data"}
        /\ response.body.success = FALSE) =>
        ("error" \in DOMAIN response.body /\ Truthy(response.body.error))

C5_NoIdentifierNoProviderCall ==
    (pc = "responded" /\ request.endpoint \in {"/api/transcript", "/api/video-data"}
        /\ Truthy(request.url) /\ extract_video_id(request.url) = None) =>
        /\ response.status = 400
        /\ response.body.success = FALSE
        /\ calls = <<>>

C5_Witness ==
    /\ Handled("/api/video-data")
    /\ request.url = URL_OtherSite
    /\ world.metaExc = NoExc /\ CaptionsSucceed
    /\ response.status = 400

\* C6: on /api/transcript with the identifier extracted, a captions error maps to its
\* own signal: disabled -> 404 and a message containing "disabled", no transcript
\* found -> 404, video unavailable -> 404, any other exception -> 500 and a message
\* carrying the exception's text; the messages of two kinds differ, and the metadata
\* extractor is not called.
C6_CaptionsErrorSignals ==
    /\ \A e1, e2 \in CaptionsErrors :
           e1.kind # e2.kind =>
               TranscriptErrorReply(e1, <<>>).body.error # TranscriptErrorReply(e2, <<>>).body.error
    /\ (Handled("/api/transcript") /\ IdExtracted) =>
           /\ ProviderRaises("TranscriptsDisabled") =>
                  /\ response.status = 404 /\ response.body.success = FALSE
                  /\ Contains(response.body.error, WORD_disabled)
                  /\ ~Called("download_info")
           /\ ProviderRaises("NoTranscriptFound") =>
                  /\ response.status = 404 /\ response.body.success = FALSE
                  /\ response.body.error = MSG_NoTranscript
                  /\ ~Called("download_info")
           /\ ProviderRaises("VideoUnavailable") =>
                  /\ response.status = 404 /\ response.body.success = FALSE
                  /\ response.body.error = MSG_Unavailable
                  /\ ~Called("download_info")
           /\ ProviderRaises("Exception") =>
                  /\ response.status = 500 /\ response.body.success = FALSE
                  /\ response.body.error = MSG_ErrorFetchingTranscript \o ProviderException.msg
                  /\ Contains(response.body.error, ProviderException.msg)
                  /\ ~Called("download_info")

C6_Witness ==
    /\ Handled("/api/transcript") /\ IdExtracted
    /\ world.listExc = NoExc /\ "en" \in world.langs
    /\ world.fetchExc = Exc("Exception", EXC_TooManyRequests)
    /\ response.status = 500

\* C7: on /api/transcript, when the captions retrieval succeeds with text that is not
\* blank and the metadata extractor raises, the response is 200 with success true,
\* the flattened transcript and the fallback video record: title "Video {id}" and
\* thumbnail https://i.ytimg.com/vi/{id}/hqdefault.jpg.
C7_MetadataFailureFallsBack ==
    (Handled("/api/transcript") /\ IdExtracted /\ CaptionsAvailable /\ "en" \in world.langs
        /\ ~SegmentsBlank /\ MetaRaises) =>
        LET id == extract_video_id(request.url)
        IN  /\ escaped = NoExc
            /\ response.status = 200
            /\ response.body.success = TRUE
            /\ response.body.transcript =
                   Join(STR_Space, [i \in 1..Len(world.segments) |-> world.segments[i].text])
            /\ response.body.video.title = STR_Video \o id
            /\ response.body.video.thumbnail = STR_ThumbPrefix \o id \o STR_ThumbSuffix

C7_Witness ==
    /\ Handled("/api/transcript")
    /\ request.url \in UrlsOf(ID_a_b_c1D2e3F)
    /\ CaptionsAvailable /\ "en" \in world.langs /\ Len(world.segments) = 2 /\ ~SegmentsBlank
    /\ world.metaExc = Exc("Exception", <<>>)
    /\ response.status = 200

\* C8: on /api/transcript, a video that has captions in some language but not in
\* English is answered with that transcript: the request succeeds.
C8_AnyLanguageFallback ==
    (Handled("/api/transcript") /\ IdExtracted /\ CaptionsAvailable /\ "en" \notin world.langs
        /\ ~SegmentsBlank) =>
        /\ response.status = 200
        /\ response.body.success = TRUE
        /\ "transcript" \in DOMAIN response.body

\* C9: every accepted shape of the URL of one video (watch, youtu.be, /embed/,
\* youtube-nocookie.com; with or without scheme and www.) gives the identifier of
\* that video, and whatever the url, the identifier is 11 characters or not found.
C9_SameIdentifierForEveryShape ==
    Handled("/api/video-data") =>
        /\ \A id \in VideoIds :
               request.url \in UrlsOf(id) =>
                   (response.status = 200 /\ response.body.video_id = id)
        /\ Truthy(request.url) =>
               \/ response.status = 400 /\ response.body.error = MSG_InvalidUrl
               \/ response.status = 200 /\ Len(response.body.video_id) = IdLen

C9_Witness ==
    /\ Handled("/api/video-data")
    /\ request.url = URL_www \o URL_nocookie \o ID_a_b_c1D2e3F
    /\ response.body.video_id = ID_a_b_c1D2e3F

\* C10: on /api/transcript, a response with success true carries a transcript that is
\* not empty once stripped; when the captions retrieval succeeds and the joined text
\* is blank, the response is 404 with success false, error "Transcript is empty" and
\* the video record, and the metadata step came before.
C10_SuccessMeansTranscript ==
    Handled("/api/transcript") =>
        /\ response.body.success = TRUE =>
               ("transcript" \in DOMAIN response.body /\ Strip(response.body.transcript) # <<>>)
        /\ (IdExtracted /\ CaptionsAvailable /\ "en" \in world.langs /\ SegmentsBlank) =>
               /\ response.status = 404
               /\ response.body.success = FALSE
               /\ response.body.error = MSG_TranscriptEmpty
               /\ "video" \in DOMAIN response.body
               /\ calls # <<>> /\ calls[Len(calls)].fn = "download_info"

C10_Witness ==
    /\ Handled("/api/transcript") /\ IdExtracted
    /\ CaptionsAvailable /\ "en" \in world.langs /\ Len(world.segments) = 2 /\ SegmentsBlank
    /\ response.status = 404
====
